---- MODULE Spec2Model ----
(***************************************************************************)
(* Session lifecycle of the MIM3 dashboard: the user_session table, the    *)
(* two st.cache_data caches in front of its lookups, the Streamlit session *)
(* state (UI mirror) and the SessionService operations on them.            *)
(*                                                                         *)
(* Time is counted in seconds.  A token is a string; None and "" are both  *)
(* falsy in the code and are both written "".                              *)
(***************************************************************************)
EXTENDS Integers, Sequences, FiniteSets, TLC

(* ------------------------------ bounds -------------------------------- *)
MaxSteps == 5
MaxSessions == 3
MaxFaults == 1
MaxUnitSteps == 2

(* ------------------------- program constants -------------------------- *)
CACHE_TTL_FAST == 60
CACHE_TTL_SHORT == 300
SESSION_HOURS == 8
MIN_TOKEN_LEN == 10

SecondsOf(hours) == hours * 3600

(* Clock advances the model takes: one second, each cache lifetime, and    *)
(* the session lifetime (so that now = expires_at is reached exactly).     *)
TickSteps == {1, CACHE_TTL_FAST, CACHE_TTL_SHORT, SecondsOf(SESSION_HOURS)}

(* ------------------------------ tokens -------------------------------- *)
(* secrets.token_urlsafe(32) yields 43 URL-safe characters.                *)
(* Tokens are opaque, so the new tokens the generator returns are taken in *)
(* one fixed order.                                                        *)
GenSeq == <<"A1_urlsafe_token_abcdefghijklmnopqrstuvwxyz",
            "B1_urlsafe_token_abcdefghijklmnopqrstuvwxyz",
            "C1_urlsafe_token_abcdefghijklmnopqrstuvwxyz",
            "D1_urlsafe_token_abcdefghijklmnopqrstuvwxyz">>
GenTokens == {GenSeq[i] : i \in 1..Len(GenSeq)}
(* Strings a client may present that the generator never issued.           *)
ForeignTokens == {"never_issued_token"}
ShortTokens == {"short"}
NoToken == ""
AllTokens == GenTokens \cup ForeignTokens \cup ShortTokens \cup {NoToken}

(* ------------------------- user and role rows ------------------------- *)
None == "None"
NoId == 0

ROLE_TABLE == (1 :> [name |-> "admin"]) @@ (2 :> [name |-> "staff"])

USER_TABLE == (1 :> [username |-> "alice", name |-> "Alice", role_id |-> 1])
           @@ (2 :> [username |-> "budi", name |-> "Budi", role_id |-> 2])

UserIds == DOMAIN USER_TABLE

(* request_info as built by AuthService.perform_login *)
RequestInfos == {[ip_address |-> "127.0.0.1", user_agent |-> "Streamlit Dashboard"]}

(* Field limits of SessionCreate. *)
IP_MAX_LENGTH == 45
USER_AGENT_MAX_LENGTH == 500

RECURSIVE Repeat(_, _)
Repeat(str, n) == IF n = 0 THEN "" ELSE str \o Repeat(str, n - 1)

(* request_info as other callers of create_user_session may hand it in:    *)
(* absent values, values at the field limits and values beyond them.       *)
ClientMetadata ==
    {[ip_address |-> None, user_agent |-> Repeat("Mozilla/5 ", 50)],
     [ip_address |-> Repeat("abcde", 9), user_agent |-> None],
     [ip_address |-> Repeat("abcde", 9) \o "f", user_agent |-> "Streamlit Dashboard"],
     [ip_address |-> "127.0.0.1", user_agent |-> Repeat("Mozilla/5 ", 50) \o "x"]}

(* ------------------------------- state -------------------------------- *)
VARIABLES
    sessions,      \* user_session table, rows in insertion order
    valCache,      \* st.cache_data of get_session_by_token, per token
    expCache,      \* st.cache_data of is_session_expired, per token
    mirror,        \* st.session_state: key -> value
    now,           \* datetime.now()
    steps,         \* number of calls and events so far
    dbUp,          \* whether st.connection / the statement succeeds
    last,          \* the last call and what it returned
    issued,        \* tokens a successful create_user_session returned
    revokedOk,     \* tokens for which clear_session has returned True
    observedDead,  \* tokens Validate has reported inactive or expired
    users,         \* ids of the rows present in user_account
    url,           \* st.query_params["session"]; "" when absent
    draws,         \* tokens token_urlsafe returned in the last creation
    health,        \* the report of the last run_full_health_check
    captured,      \* what the last from_streamlit_context returned
    conn,          \* st.session_state of each browser connection
    files,         \* the session_*.json files in AppPaths.SESSIONS_DIR
    authed         \* per connection, the user who logged in on it

(* Browser connections; each has its own st.session_state. *)
Connections == {"c1", "c2"}

NoSessionId == 0

(* A session state without session_id and with the defaults of             *)
(* SessionState.initialize_defaults.                                       *)
NoFile == [session_id |-> NoSessionId]

EmptyConn == [session_id |-> NoSessionId, logged_in |-> FALSE,
              user_id |-> NoId, username |-> "", user_role |-> "user"]

(* Before the first health check and the first context capture. *)
NoReport == [overall_health |-> "unknown", context_available |-> FALSE,
             fallback_used |-> FALSE, session_state_available |-> FALSE,
             test_passed |-> FALSE]

NoContext == [raised |-> FALSE, fields |-> [k \in {} |-> "null"]]

(* The variables of the file-persisted sessions of main.py. *)
connVars == <<conn, files, authed>>

(* The variables of the health check, the context capture and the          *)
(* file-persisted sessions.                                                *)
unitVars == <<health, captured, connVars>>

vars == <<sessions, valCache, expCache, mirror, now, steps, dbUp, last,
          issued, revokedOk, observedDead, users, url, draws, health,
          captured, conn,
          files, authed>>

(* ----------------------- SessionValidation ---------------------------- *)
invalid_session(reason) ==
    [is_valid |-> FALSE, is_expired |-> FALSE, user_id |-> NoId,
     username |-> None, role_name |-> None, message |-> reason]

expired_session ==
    [is_valid |-> FALSE, is_expired |-> TRUE, user_id |-> NoId,
     username |-> None, role_name |-> None, message |-> "Session expired"]

valid_session(user_id, username, role_name) ==
    [is_valid |-> TRUE, is_expired |-> FALSE, user_id |-> user_id,
     username |-> username, role_name |-> role_name,
     message |-> "Session valid"]

(* --------------------------- SessionResult ---------------------------- *)
success_result(session_id, token, message) ==
    [success |-> TRUE, session_id |-> session_id, token |-> token,
     message |-> message]

error_result(message) ==
    [success |-> FALSE, session_id |-> NoId, token |-> NoToken,
     message |-> message]

(* ---------------------------- table helpers --------------------------- *)
RowsOf(rows, t) == {i \in 1..Len(rows) : rows[i].session_token = t}

IssuedTokens == {sessions[i].session_token : i \in 1..Len(sessions)}

(* create_new with the lifetime subtracted instead of added *)
create_new_SignSlip(user_id, hours, request_info, token) ==
    [user_id |-> user_id, session_token |-> token,
     ip_address |-> request_info.ip_address,
     user_agent |-> request_info.user_agent,
     expires_at |-> now - SecondsOf(hours)]

(* The validation pydantic runs when SessionCreate is constructed:         *)
(* max_length on ip_address and user_agent; a longer value raises.         *)
SessionCreateAccepts(request_info) ==
    /\ (request_info.ip_address = None
        \/ Len(request_info.ip_address) <= IP_MAX_LENGTH)
    /\ (request_info.user_agent = None
        \/ Len(request_info.user_agent) <= USER_AGENT_MAX_LENGTH)

(* SessionCreate.create_new: a new token, expiry hours from now.  The      *)
(* token is the generator's choice and is passed in.                       *)
create_new(user_id, hours, request_info, token) ==
    [user_id |-> user_id, session_token |-> token,
     ip_address |-> request_info.ip_address,
     user_agent |-> request_info.user_agent,
     expires_at |-> now + SecondsOf(hours)]

(* ------------------------- database commands -------------------------- *)
(* str(e) of the two exceptions the INSERT can raise. *)
UniqueViolation == "UNIQUE constraint failed: user_session.session_token"
ConnectionFailed == "unable to open database file"

(* except Exception as e: error_result(f"Gagal membuat database            *)
(* session: {e!s}")                                                        *)
create_session_error(e) ==
    error_result("Gagal membuat database session: " \o e)

(* create_session that inserts the row and then reports failure whenever   *)
(* the store is down                                                       *)
create_session_InsertThenFail(session_data) ==
    IF RowsOf(sessions, session_data.session_token) # {}
    THEN [res |-> create_session_error(UniqueViolation),
          rows |-> sessions]
    ELSE LET session_id == Len(sessions) + 1
             row == [id |-> session_id,
                     user_id |-> session_data.user_id,
                     session_token |-> session_data.session_token,
                     ip_address |-> session_data.ip_address,
                     user_agent |-> session_data.user_agent,
                     expires_at |-> session_data.expires_at,
                     created_at |-> now,
                     last_activity |-> now,
                     is_active |-> TRUE]
         IN [res |-> IF dbUp
                     THEN success_result(session_id,
                                         session_data.session_token,
                                         "Database session berhasil dibuat")
                     ELSE create_session_error(ConnectionFailed),
             rows |-> Append(sessions, row)]

(* create_session on a table without the UNIQUE constraint on              *)
(* session_token                                                           *)
create_session_NoUnique(session_data) ==
    IF ~dbUp
    THEN [res |-> create_session_error(ConnectionFailed),
          rows |-> sessions]
    ELSE LET session_id == Len(sessions) + 1
             row == [id |-> session_id,
                     user_id |-> session_data.user_id,
                     session_token |-> session_data.session_token,
                     ip_address |-> session_data.ip_address,
                     user_agent |-> session_data.user_agent,
                     expires_at |-> session_data.expires_at,
                     created_at |-> now,
                     last_activity |-> now,
                     is_active |-> TRUE]
         IN [res |-> success_result(session_id, session_data.session_token,
                                    "Database session berhasil dibuat"),
             rows |-> Append(sessions, row)]

(* INSERT into user_session; session_token is UNIQUE, so a duplicate token *)
(* raises, as does a failed connection; both are caught.                   *)
create_session(session_data) ==
    IF ~dbUp \/ RowsOf(sessions, session_data.session_token) # {}
    THEN [res |-> create_session_error(IF ~dbUp THEN ConnectionFailed
                                     ELSE UniqueViolation),
          rows |-> sessions]
    ELSE LET session_id == Len(sessions) + 1
             row == [id |-> session_id,
                     user_id |-> session_data.user_id,
                     session_token |-> session_data.session_token,
                     ip_address |-> session_data.ip_address,
                     user_agent |-> session_data.user_agent,
                     expires_at |-> session_data.expires_at,
                     created_at |-> now,
                     last_activity |-> now,
                     is_active |-> TRUE]
         IN [res |-> success_result(session_id, session_data.session_token,
                                    "Database session berhasil dibuat"),
             rows |-> Append(sessions, row)]

(* deactivate_session deleting the row instead of flagging it *)
deactivate_session_Delete(session_token) ==
    IF ~dbUp
    THEN [ok |-> FALSE, rows |-> sessions]
    ELSE [ok |-> RowsOf(sessions, session_token) # {},
          rows |-> SelectSeq(sessions,
                      LAMBDA r : r.session_token # session_token)]

(* deactivate_session matching on the owner of the token instead of the   *)
(* token                                                                   *)
deactivate_session_ByOwner(session_token) ==
    IF ~dbUp
    THEN [ok |-> FALSE, rows |-> sessions]
    ELSE LET owners == {sessions[i].user_id :
                           i \in RowsOf(sessions, session_token)}
         IN [ok |-> owners # {},
             rows |-> [i \in 1..Len(sessions) |->
                         IF sessions[i].user_id \in owners
                         THEN [sessions[i] EXCEPT !.is_active = FALSE,
                                                  !.last_activity = now]
                         ELSE sessions[i]]]

(* UPDATE ... SET is_active=False, last_activity=now WHERE token = t *)
deactivate_session(session_token) ==
    IF ~dbUp
    THEN [ok |-> FALSE, rows |-> sessions]
    ELSE [ok |-> RowsOf(sessions, session_token) # {},
          rows |-> [i \in 1..Len(sessions) |->
                      IF sessions[i].session_token = session_token
                      THEN [sessions[i] EXCEPT !.is_active = FALSE,
                                               !.last_activity = now]
                      ELSE sessions[i]]]

(* update_session_activity without the is_active filter *)
update_session_activity_AnyRow(session_token) ==
    IF ~dbUp
    THEN [ok |-> FALSE, rows |-> sessions]
    ELSE [ok |-> RowsOf(sessions, session_token) # {},
          rows |-> [i \in 1..Len(sessions) |->
                      IF sessions[i].session_token = session_token
                      THEN [sessions[i] EXCEPT !.last_activity = now]
                      ELSE sessions[i]]]

(* update_session_activity stamping a time one second behind the clock *)
update_session_activity_ClockSkew(session_token) ==
    IF ~dbUp
    THEN [ok |-> FALSE, rows |-> sessions]
    ELSE LET hit == {i \in RowsOf(sessions, session_token) :
                        sessions[i].is_active}
         IN [ok |-> hit # {},
             rows |-> [i \in 1..Len(sessions) |->
                         IF i \in hit
                         THEN [sessions[i] EXCEPT !.last_activity = now - 1]
                         ELSE sessions[i]]]

(* update_session_activity without the is_active filter, marking the row  *)
(* alive                                                                   *)
update_session_activity_KeepAlive(session_token) ==
    IF ~dbUp
    THEN [ok |-> FALSE, rows |-> sessions]
    ELSE [ok |-> RowsOf(sessions, session_token) # {},
          rows |-> [i \in 1..Len(sessions) |->
                      IF sessions[i].session_token = session_token
                      THEN [sessions[i] EXCEPT !.is_active = TRUE,
                                               !.last_activity = now]
                      ELSE sessions[i]]]

(* UPDATE ... SET last_activity=now WHERE token = t AND is_active *)
update_session_activity(session_token) ==
    IF ~dbUp
    THEN [ok |-> FALSE, rows |-> sessions]
    ELSE LET hit == {i \in RowsOf(sessions, session_token) :
                        sessions[i].is_active}
         IN [ok |-> hit # {},
             rows |-> [i \in 1..Len(sessions) |->
                         IF i \in hit
                         THEN [sessions[i] EXCEPT !.last_activity = now]
                         ELSE sessions[i]]]

(* get_session_by_token without the early return on a short token *)
get_session_by_token_body_NoLengthCheck(session_token) ==
    IF ~dbUp
    THEN invalid_session("Error validasi session")
    ELSE LET joined == {i \in RowsOf(sessions, session_token) :
                           /\ sessions[i].user_id \in users
                           /\ USER_TABLE[sessions[i].user_id].role_id
                                 \in DOMAIN ROLE_TABLE}
         IN IF joined = {}
            THEN invalid_session("Session tidak ditemukan")
            ELSE LET result == sessions[CHOOSE i \in joined :
                                           \A j \in joined : i <= j]
                     user == USER_TABLE[result.user_id]
                 IN IF ~result.is_active
                    THEN invalid_session("Session tidak aktif")
                    ELSE IF now > result.expires_at
                    THEN expired_session
                    ELSE valid_session(result.user_id, user.username,
                                       ROLE_TABLE[user.role_id].name)

(* The body of get_session_by_token: the join of session, user and role.   *)
get_session_by_token_body(session_token) ==
    IF session_token = NoToken \/ Len(session_token) < MIN_TOKEN_LEN
    THEN invalid_session("Token tidak valid")
    ELSE IF ~dbUp
    THEN invalid_session("Error validasi session")
    ELSE LET joined == {i \in RowsOf(sessions, session_token) :
                           /\ sessions[i].user_id \in users
                           /\ USER_TABLE[sessions[i].user_id].role_id
                                 \in DOMAIN ROLE_TABLE}
         IN IF joined = {}
            THEN invalid_session("Session tidak ditemukan")
            ELSE LET result == sessions[CHOOSE i \in joined :
                                           \A j \in joined : i <= j]
                     user == USER_TABLE[result.user_id]
                 IN IF ~result.is_active
                    THEN invalid_session("Session tidak aktif")
                    ELSE IF now > result.expires_at
                    THEN expired_session
                    ELSE valid_session(result.user_id, user.username,
                                       ROLE_TABLE[user.role_id].name)

(* is_session_expired answering "not expired" for a missing row *)
is_session_expired_body_FailOpen(session_token) ==
    IF ~dbUp
    THEN TRUE
    ELSE LET found == RowsOf(sessions, session_token)
         IN IF found = {}
            THEN FALSE
            ELSE LET result == sessions[CHOOSE i \in found :
                                           \A j \in found : i <= j]
                 IN now > result.expires_at

(* The body of is_session_expired. *)
is_session_expired_body(session_token) ==
    IF ~dbUp
    THEN TRUE
    ELSE LET found == RowsOf(sessions, session_token)
         IN IF found = {}
            THEN TRUE
            ELSE LET result == sessions[CHOOSE i \in found :
                                           \A j \in found : i <= j]
                 IN now > result.expires_at

(* ---------------------------- st.cache_data --------------------------- *)
(* An entry is <<[at, val]>>; no entry is <<>>.  An entry answers calls    *)
(* until ttl seconds after it was stored.                                  *)
CacheFresh(entry, ttl, time) == entry # <<>> /\ time < entry[1].at + ttl

CacheLookup(cache, key, ttl, computed) ==
    IF CacheFresh(cache[key], ttl, now)
    THEN [val |-> cache[key][1].val, cache |-> cache]
    ELSE [val |-> computed,
          cache |-> [cache EXCEPT ![key] = <<[at |-> now, val |-> computed]>>]]

CachePurge(cache, ttl, time) ==
    [k \in DOMAIN cache |->
        IF CacheFresh(cache[k], ttl, time) THEN cache[k] ELSE <<>>]

get_session_by_token(session_token) ==
    CacheLookup(valCache, session_token, CACHE_TTL_FAST,
                get_session_by_token_body(session_token))

is_session_expired(session_token) ==
    CacheLookup(expCache, session_token, CACHE_TTL_SHORT,
                is_session_expired_body(session_token))

(* ------------------------ Streamlit session state --------------------- *)
SESSION_KEYS == {"authenticated", "user_id", "username", "display_name",
                 "user_role", "session_token", "session_id"}

EmptyState == [k \in {} |-> None]

streamlit_session_id == "sid"

clear_session_state(state) ==
    [k \in DOMAIN state \ SESSION_KEYS |-> state[k]]

(* set_session without the clearing in its except branch: the keys        *)
(* written before the failing attribute stay                              *)
set_session_KeepPartial(state, data) ==
    LET order == <<"authenticated", "user_id", "username", "display_name",
                   "user_role", "session_token", "session_id">>
        reads == <<"user_id", "user_id", "username", "display_name",
                   "role", "session_token", "session_token">>
        value(k) == CASE k = "authenticated" -> TRUE
                      [] k = "user_id" -> data.user_id
                      [] k = "username" -> data.username
                      [] k = "display_name" -> data.display_name
                      [] k = "user_role" -> data.role
                      [] k = "session_token" -> data.session_token
                      [] OTHER -> streamlit_session_id
        failing == {i \in 2..6 : reads[i] \notin DOMAIN data}
        written == {order[i] : i \in {j \in 1..7 :
                                        \A f \in failing : j < f}}
    IN [ok |-> failing = {},
        state |-> [k \in DOMAIN state \cup written |->
                     IF k \in written THEN value(k) ELSE state[k]]]

(* set_session reads data.user_id, .username, .display_name, .role and     *)
(* .session_token in turn; a missing attribute raises, and the except      *)
(* branch clears whatever was written.                                     *)
set_session(state, data) ==
    IF {"user_id", "username", "display_name", "role", "session_token"}
          \subseteq DOMAIN data
    THEN [ok |-> TRUE,
          state |-> [k \in DOMAIN state \cup SESSION_KEYS |->
                       CASE k = "authenticated" -> TRUE
                         [] k = "user_id" -> data.user_id
                         [] k = "username" -> data.username
                         [] k = "display_name" -> data.display_name
                         [] k = "user_role" -> data.role
                         [] k = "session_token" -> data.session_token
                         [] k = "session_id" -> streamlit_session_id
                         [] OTHER -> state[k]]]
    ELSE [ok |-> FALSE, state |-> clear_session_state(state)]

(* ActiveSession as AuthService._authenticate builds it *)
ActiveSession(user_id, token) ==
    [user_id |-> user_id,
     username |-> USER_TABLE[user_id].username,
     name |-> USER_TABLE[user_id].name,
     role_id |-> USER_TABLE[user_id].role_id,
     role_name |-> ROLE_TABLE[USER_TABLE[user_id].role_id].name,
     login_time |-> now,
     session_token |-> token]

(* ------------------------------ Init ---------------------------------- *)
(* last: the call made last, what it returned, and whether it repeats the  *)
(* call before it (nth = 2) or not (nth = 1).                              *)
NoCall == [op |-> "init", token |-> NoToken, user |-> NoId, ok |-> FALSE,
           val |-> invalid_session(""), nth |-> 1]

Call(op, token, user, ok, val) ==
    [op |-> op, token |-> token, user |-> user, ok |-> ok, val |-> val,
     nth |-> IF last.op = op /\ last.token = token /\ last.user = user
             THEN 2 ELSE 1]

Init ==
    /\ sessions = <<>>
    /\ valCache = [t \in AllTokens |-> <<>>]
    /\ expCache = [t \in AllTokens |-> <<>>]
    /\ mirror = EmptyState
    /\ now = 0
    /\ steps = 0
    /\ dbUp = TRUE
    /\ last = NoCall
    /\ issued = {}
    /\ revokedOk = {}
    /\ observedDead = {}
    /\ users = UserIds
    /\ url = NoToken
    /\ draws = 0
    /\ health = NoReport
    /\ captured = NoContext
    /\ conn = [c \in Connections |-> EmptyConn]
    /\ files = {}
    /\ authed = [c \in Connections |-> NoId]

(* --------------------------- SessionService --------------------------- *)
(* create_user_session: prepare the insert, insert, then mirror the        *)
(* session into st.session_state.  token is what token_urlsafe returned;   *)
(* create_new is called once on every path, so one token is drawn.         *)
create_user_session(user_session, request_info, token) ==
    LET session_data == create_new(user_session.user_id, SESSION_HOURS,
                                   request_info, token)
        db_result == create_session(session_data)
    IN IF ~SessionCreateAccepts(request_info)
       THEN [res |-> error_result("Error sistem saat membuat session"),
             rows |-> sessions, state |-> mirror, draws |-> 1]
       ELSE IF ~db_result.res.success
       THEN [res |-> db_result.res, rows |-> db_result.rows, state |-> mirror,
             draws |-> 1]
       ELSE [res |-> success_result(db_result.res.session_id,
                                    db_result.res.token,
                                    "Hybrid session berhasil dibuat"),
             rows |-> db_result.rows,
             draws |-> 1,
             state |-> set_session(mirror,
                          [user_session EXCEPT
                              !.session_token = db_result.res.token]).state]

(* validate_session handing the empty token to the store lookup *)
validate_session_Delegate(session_token) ==
    get_session_by_token(session_token)

validate_session(session_token) ==
    IF session_token = NoToken
    THEN [val |-> invalid_session("Token tidak ada"), cache |-> valCache]
    ELSE get_session_by_token(session_token)

refresh_session(session_token) ==
    IF session_token = NoToken
    THEN [ok |-> FALSE, rows |-> sessions, cache |-> expCache]
    ELSE LET expired == is_session_expired(session_token)
         IN IF expired.val
            THEN [ok |-> FALSE, rows |-> sessions, cache |-> expired.cache]
            ELSE LET upd == update_session_activity(session_token)
                 IN [ok |-> upd.ok, rows |-> upd.rows,
                     cache |-> expired.cache]

(* clear_session returning what deactivate_session returned *)
clear_session_ReportStore(session_token) ==
    [ok |-> session_token # NoToken /\ deactivate_session(session_token).ok,
     state |-> clear_session_state(mirror),
     rows |-> IF session_token # NoToken
              THEN deactivate_session(session_token).rows
              ELSE sessions]

(* clear_session: the mirror is cleared first; the row is deactivated when *)
(* a token was given; True is returned on every path.                      *)
clear_session(session_token) ==
    [ok |-> TRUE,
     state |-> clear_session_state(mirror),
     rows |-> IF session_token # NoToken
              THEN deactivate_session(session_token).rows
              ELSE sessions]

(* Bulk revocation of one user's sessions (repository contract). *)
force_deactivate_user_sessions(user_id) ==
    IF ~dbUp
    THEN [ok |-> FALSE, rows |-> sessions]
    ELSE [ok |-> TRUE,
          rows |-> [i \in 1..Len(sessions) |->
                      IF sessions[i].user_id = user_id
                      THEN [sessions[i] EXCEPT !.is_active = FALSE]
                      ELSE sessions[i]]]

force_logout_user(user_id) == force_deactivate_user_sessions(user_id)

(* ------------------------------ actions ------------------------------- *)
NoVal == invalid_session("")

(* What a client can present: a token that was issued, or a string that    *)
(* the generator never produces (a 256-bit token cannot be presented       *)
(* before it has been issued).                                             *)
Presentable == issued \cup ForeignTokens \cup {NoToken}

(* Only get_session_by_token looks at the length of the token. *)
PresentableToValidate == Presentable \cup ShortTokens

IsDeadOutcome(val) == val.is_expired \/ val.message = "Session tidak aktif"

(* Every call and event counts as one step. *)
Count == steps < MaxSteps /\ steps' = steps + 1

CreateUserSession(user_id, request_info, token) ==
    /\ Count
    /\ UNCHANGED unitVars
    /\ Len(sessions) < MaxSessions
    /\ LET r == create_user_session(ActiveSession(user_id, NoToken),
                                    request_info, token)
       IN /\ sessions' = r.rows
          /\ mirror' = r.state
          /\ last' = Call("create", r.res.token, user_id, r.res.success,
                          [NoVal EXCEPT !.message = r.res.message])
          /\ issued' = IF r.res.success
                       THEN issued \cup {r.res.token}
                       ELSE issued
          /\ draws' = r.draws
    /\ UNCHANGED <<users, url>>
    /\ UNCHANGED <<valCache, expCache, now, dbUp, revokedOk, observedDead>>

Validate(session_token) ==
    /\ Count
    /\ UNCHANGED unitVars
    /\ LET r == validate_session(session_token)
       IN /\ valCache' = r.cache
          /\ last' = Call("validate", session_token, NoId, r.val.is_valid,
                          r.val)
          /\ observedDead' = IF IsDeadOutcome(r.val)
                             THEN observedDead \cup {session_token}
                             ELSE observedDead
    /\ UNCHANGED <<users, url, draws>>
    /\ UNCHANGED <<sessions, expCache, mirror, now, dbUp, issued, revokedOk>>

IsExpired(session_token) ==
    /\ Count
    /\ UNCHANGED unitVars
    /\ LET r == is_session_expired(session_token)
       IN /\ expCache' = r.cache
          /\ last' = Call("is_expired", session_token, NoId, r.val, NoVal)
    /\ UNCHANGED <<users, url, draws>>
    /\ UNCHANGED <<sessions, valCache, mirror, now, dbUp, issued, revokedOk,
                   observedDead>>

Refresh(session_token) ==
    /\ Count
    /\ UNCHANGED unitVars
    /\ LET r == refresh_session(session_token)
       IN /\ sessions' = r.rows
          /\ expCache' = r.cache
          /\ last' = Call("refresh", session_token, NoId, r.ok, NoVal)
    /\ UNCHANGED <<users, url, draws>>
    /\ UNCHANGED <<valCache, mirror, now, dbUp, issued, revokedOk,
                   observedDead>>

Revoke(session_token) ==
    /\ Count
    /\ UNCHANGED unitVars
    /\ LET r == clear_session(session_token)
       IN /\ sessions' = r.rows
          /\ mirror' = r.state
          /\ last' = Call("revoke", session_token, NoId, r.ok, NoVal)
          /\ revokedOk' = IF r.ok /\ session_token # NoToken
                          THEN revokedOk \cup {session_token}
                          ELSE revokedOk
    /\ UNCHANGED <<users, url, draws>>
    /\ UNCHANGED <<valCache, expCache, now, dbUp, issued, observedDead>>

ForceLogoutUser(user_id) ==
    /\ Count
    /\ UNCHANGED unitVars
    /\ LET r == force_logout_user(user_id)
       IN /\ sessions' = r.rows
          /\ last' = Call("force_logout", NoToken, user_id, r.ok, NoVal)
    /\ UNCHANGED <<users, url, draws>>
    /\ UNCHANGED <<valCache, expCache, mirror, now, dbUp, issued, revokedOk,
                   observedDead>>

(* The clock advances; entries that have outlived their ttl are dropped    *)
(* (they would be recomputed at their next lookup).                        *)
Tick(d) ==
    /\ Count
    /\ UNCHANGED unitVars
    /\ now' = now + d
    /\ valCache' = CachePurge(valCache, CACHE_TTL_FAST, now + d)
    /\ expCache' = CachePurge(expCache, CACHE_TTL_SHORT, now + d)
    /\ last' = Call("tick", NoToken, NoId, TRUE, NoVal)
    /\ UNCHANGED <<users, url, draws>>
    /\ UNCHANGED <<sessions, mirror, dbUp, issued, revokedOk,
                   observedDead>>

StoreFail ==
    /\ Count
    /\ UNCHANGED unitVars
    /\ dbUp
    /\ dbUp' = FALSE
    /\ last' = Call("store_fail", NoToken, NoId, TRUE, NoVal)
    /\ UNCHANGED <<users, url, draws>>
    /\ UNCHANGED <<sessions, valCache, expCache, mirror, now, issued,
                   revokedOk, observedDead>>

StoreRecover ==
    /\ Count
    /\ UNCHANGED unitVars
    /\ ~dbUp
    /\ dbUp' = TRUE
    /\ last' = Call("store_recover", NoToken, NoId, TRUE, NoVal)
    /\ UNCHANGED <<users, url, draws>>
    /\ UNCHANGED <<sessions, valCache, expCache, mirror, now, issued,
                   revokedOk, observedDead>>

(* token_urlsafe returns a token already in the table (a collision) or a   *)
(* new one.                                                                *)
GenChoices ==
    (IssuedTokens \cap GenTokens) \cup
    (IF Len(sessions) < Len(GenSeq) THEN {GenSeq[Len(sessions) + 1]} ELSE {})

Next ==
    \/ \E u \in UserIds, ri \in RequestInfos, t \in GenChoices :
          CreateUserSession(u, ri, t)
    \/ \E t \in PresentableToValidate : Validate(t)
    \/ \E t \in Presentable : IsExpired(t)
    \/ \E t \in Presentable : Refresh(t)
    \/ \E t \in Presentable : Revoke(t)
    \/ \E u \in UserIds : ForceLogoutUser(u)
    \/ \E d \in TickSteps : Tick(d)
    \/ StoreFail
    \/ StoreRecover

Spec == Init /\ [][Next]_vars

(* ================== the database commands (StoreSpec) ================= *)
(* The commands of session_commands.py called one by one, as the           *)
(* repository protocol exposes them, next to creation and revocation.      *)
UpdateActivity(session_token) ==
    /\ Count
    /\ UNCHANGED unitVars
    /\ LET r == update_session_activity(session_token)
       IN /\ sessions' = r.rows
          /\ last' = Call("update_activity", session_token, NoId, r.ok, NoVal)
    /\ UNCHANGED <<users, url, draws>>
    /\ UNCHANGED <<valCache, expCache, mirror, now, dbUp, issued, revokedOk,
                   observedDead>>

StoreNext ==
    \/ \E u \in UserIds, ri \in ClientMetadata, t \in GenChoices :
          CreateUserSession(u, ri, t)
    \/ \E t \in Presentable : UpdateActivity(t)
    \/ \E t \in Presentable : Revoke(t)
    \/ \E d \in TickSteps : Tick(d)
    \/ StoreFail
    \/ StoreRecover

StoreSpec == Init /\ [][StoreNext]_vars

(* ===================== application layer (AppSpec) ==================== *)
(* AuthMessages *)
LOGIN_SUCCESS == "Login berhasil"
REQUIRED_FIELDS == "Username dan password harus diisi"
LOGIN_FAILED == "Username atau password salah"
SYSTEM_ERROR == "Terjadi kesalahan sistem"
DATABASE_ERROR == "Terjadi kesalahan pada database"

(* The failure messages of perform_login, _authenticate and                *)
(* create_user_session that are fixed strings.                             *)
FixedFailureMessages ==
    {REQUIRED_FIELDS, LOGIN_FAILED, SYSTEM_ERROR, DATABASE_ERROR,
     "Error sistem: session_id tidak valid",
     "Error sistem: token tidak valid",
     "Error sistem saat membuat session",
     "Gagal membuat database session"}

(* The user commands, the SessionRestorationManager, AuthService and the   *)
(* page script (App.run), on the same tables, caches and session state.    *)

(* ------------------------- user commands ------------------------------ *)
(* delete_user: DELETE FROM user_account WHERE id = user_id.  The rows of  *)
(* user_session are not touched.  user_session.user_id REFERENCES          *)
(* user_account(id): where the engine enforces the key, deleting a user    *)
(* who still has session rows raises, which is caught.                     *)
delete_user(user_id, fk_enforced) ==
    IF \/ ~dbUp
       \/ user_id \notin users
       \/ (fk_enforced /\ \E i \in 1..Len(sessions) :
                             sessions[i].user_id = user_id)
    THEN [ok |-> FALSE, users |-> users, rows |-> sessions]
    ELSE [ok |-> TRUE, users |-> users \ {user_id}, rows |-> sessions]

(* deactivate_user selects user_table.c.is_active; USER_TABLE has no such  *)
(* column, so the AttributeError is caught and a failure is returned       *)
(* before any statement runs.                                              *)
deactivate_user(user_id) ==
    [ok |-> FALSE, users |-> users, rows |-> sessions]

(* --------------------- SessionRestorationManager ---------------------- *)
MirrorToken(state) ==
    IF "session_token" \in DOMAIN state THEN state.session_token ELSE NoToken

(* An object with the attributes of the StreamlitSessionData protocol. *)
StreamlitSessionData(user_id, token) ==
    [user_id |-> user_id,
     username |-> USER_TABLE[user_id].username,
     display_name |-> USER_TABLE[user_id].name,
     role |-> ROLE_TABLE[USER_TABLE[user_id].role_id].name,
     session_token |-> token]

(* restore_session_from_token clearing the mirror when it fails *)
restore_session_from_token_ClearOnFail(session_token) ==
    [ok |-> FALSE, state |-> clear_session_state(mirror)]

(* restore_session_from_token: after capturing the context it calls        *)
(* session_service.get_session_restoration_data, which SessionService does *)
(* not define; the AttributeError is caught and False returned, before     *)
(* set_user_session is reached.                                            *)
restore_session_from_token(session_token) ==
    [ok |-> FALSE, state |-> mirror]

(* SessionRestorationManager.clear_session_state: the mirror is cleared,   *)
(* then session_service.deactivate_session is called, which SessionService *)
(* does not define; the AttributeError is caught and True returned.        *)
manager_clear_session_state(session_token) ==
    [ok |-> TRUE, state |-> clear_session_state(mirror), rows |-> sessions]

(* ensure_session_active: validate the token of the mirror; clear on a     *)
(* non-valid answer, refresh otherwise.                                    *)
ensure_session_active ==
    LET session_token == MirrorToken(mirror)
    IN IF session_token = NoToken
       THEN [ok |-> FALSE, state |-> mirror, rows |-> sessions,
             vcache |-> valCache, ecache |-> expCache]
       ELSE LET validation == validate_session(session_token)
            IN IF ~validation.val.is_valid
               THEN LET c == manager_clear_session_state(session_token)
                    IN [ok |-> FALSE, state |-> c.state, rows |-> c.rows,
                        vcache |-> validation.cache, ecache |-> expCache]
               ELSE LET r == refresh_session(session_token)
                    IN [ok |-> r.ok, state |-> mirror, rows |-> r.rows,
                        vcache |-> validation.cache, ecache |-> r.cache]

(* ----------------------------- AuthService ---------------------------- *)
(* perform_logout calls session_service.clear_user_session, which          *)
(* SessionService does not define; the AttributeError is caught and        *)
(* (False, SYSTEM_ERROR) returned with nothing cleared.                    *)
perform_logout ==
    [ok |-> FALSE, state |-> mirror, rows |-> sessions]

(* ------------------------------- App ---------------------------------- *)
SessionStateDefaults ==
    [logged_in |-> FALSE, user_role |-> None, username |-> ""]

setup_defaults(state) ==
    [k \in DOMAIN state \cup DOMAIN SessionStateDefaults |->
        IF k \in DOMAIN state THEN state[k] ELSE SessionStateDefaults[k]]

(* _attempt_session_restoration leaving the parameter in place when the    *)
(* attempt raises                                                          *)
attempt_session_restoration_KeepOnError(state, param) ==
    [state |-> state, url |-> param]

(* _attempt_session_restoration: with a token in the query parameter,      *)
(* get_session_restoration_manager is called; its import of                *)
(* get_session_service from services.session_service raises, and the       *)
(* except branch clears the query parameters.  Without a token nothing is  *)
(* done.                                                                   *)
attempt_session_restoration(state, param) ==
    IF param = NoToken
    THEN [state |-> state, url |-> param]
    ELSE [state |-> state, url |-> NoToken]

(* _setup_session_state: the defaults, then the restoration attempt when   *)
(* logged_in is not set.                                                   *)
setup_session_state(state, param) ==
    LET d == setup_defaults(state)
    IN IF ~d.logged_in
       THEN attempt_session_restoration(d, param)
       ELSE [state |-> d, url |-> param]

(* ------------------------------ actions ------------------------------- *)
(* AuthService.perform_login with the right password: the session is       *)
(* created through SessionService.create_user_session.                     *)
PerformLogin(user_id, token) ==
    /\ Count
    /\ UNCHANGED unitVars
    /\ Len(sessions) < MaxSessions
    /\ user_id \in users
    /\ LET r == create_user_session(
                    ActiveSession(user_id, NoToken),
                    [ip_address |-> "127.0.0.1",
                     user_agent |-> "Streamlit Dashboard"], token)
       IN /\ sessions' = r.rows
          /\ mirror' = r.state
          /\ last' = Call("login", r.res.token, user_id, r.res.success,
                          [NoVal EXCEPT !.message =
                              IF r.res.success THEN LOGIN_SUCCESS
                              ELSE r.res.message])
          /\ issued' = IF r.res.success
                       THEN issued \cup {r.res.token}
                       ELSE issued
          /\ draws' = r.draws
    /\ UNCHANGED <<valCache, expCache, now, dbUp, revokedOk, observedDead,
                   users, url>>

(* set_user_session called with a StreamlitSessionData of a user and one   *)
(* of that user's sessions.                                                *)
SetUserSession(user_id, token) ==
    /\ Count
    /\ UNCHANGED unitVars
    /\ \E i \in RowsOf(sessions, token) : sessions[i].user_id = user_id
    /\ LET r == set_session(mirror, StreamlitSessionData(user_id, token))
       IN /\ mirror' = r.state
          /\ last' = Call("set_session", token, user_id, r.ok, NoVal)
    /\ UNCHANGED <<sessions, valCache, expCache, now, dbUp, issued,
                   revokedOk, observedDead, users, url>>
    /\ UNCHANGED draws

RestoreFromToken(session_token) ==
    /\ Count
    /\ UNCHANGED unitVars
    /\ LET r == restore_session_from_token(session_token)
       IN /\ mirror' = r.state
          /\ last' = Call("restore", session_token, NoId, r.ok, NoVal)
    /\ UNCHANGED <<sessions, valCache, expCache, now, dbUp, issued,
                   revokedOk, observedDead, users, url>>
    /\ UNCHANGED draws

EnsureActive ==
    /\ Count
    /\ UNCHANGED unitVars
    /\ LET r == ensure_session_active
       IN /\ mirror' = r.state
          /\ sessions' = r.rows
          /\ valCache' = r.vcache
          /\ expCache' = r.ecache
          /\ last' = Call("ensure", MirrorToken(mirror), NoId, r.ok, NoVal)
    /\ UNCHANGED <<now, dbUp, issued, revokedOk, observedDead, users, url>>
    /\ UNCHANGED draws

ClearAll(session_token) ==
    /\ Count
    /\ UNCHANGED unitVars
    /\ LET r == manager_clear_session_state(session_token)
       IN /\ mirror' = r.state
          /\ sessions' = r.rows
          /\ last' = Call("clear_all", session_token, NoId, r.ok, NoVal)
    /\ UNCHANGED <<valCache, expCache, now, dbUp, issued, revokedOk,
                   observedDead, users, url>>
    /\ UNCHANGED draws

PerformLogout ==
    /\ Count
    /\ UNCHANGED unitVars
    /\ LET r == perform_logout
       IN /\ mirror' = r.state
          /\ sessions' = r.rows
          /\ last' = Call("logout", MirrorToken(mirror), NoId, r.ok, NoVal)
    /\ UNCHANGED <<valCache, expCache, now, dbUp, issued, revokedOk,
                   observedDead, users, url>>
    /\ UNCHANGED draws

(* The browser opens the page with ?session=token: a new Streamlit session *)
(* whose script has not run yet.                                           *)
OpenUrl(session_token) ==
    /\ Count
    /\ UNCHANGED unitVars
    /\ session_token # NoToken
    /\ url' = session_token
    /\ mirror' = EmptyState
    /\ last' = Call("open_url", session_token, NoId, TRUE, NoVal)
    /\ UNCHANGED <<sessions, valCache, expCache, now, dbUp, issued,
                   revokedOk, observedDead, users>>
    /\ UNCHANGED draws

(* A full reload: the address stays, the session state is new. *)
Reload ==
    /\ Count
    /\ UNCHANGED unitVars
    /\ mirror # EmptyState
    /\ mirror' = EmptyState
    /\ last' = Call("reload", url, NoId, TRUE, NoVal)
    /\ UNCHANGED <<sessions, valCache, expCache, now, dbUp, issued,
                   revokedOk, observedDead, users, url>>
    /\ UNCHANGED draws

(* One run of the page script up to the end of _setup_session_state. *)
Run ==
    /\ Count
    /\ UNCHANGED unitVars
    /\ LET r == setup_session_state(mirror, url)
       IN /\ mirror' = r.state
          /\ url' = r.url
          /\ last' = Call("run", url, NoId, r.state.logged_in, NoVal)
    /\ UNCHANGED <<sessions, valCache, expCache, now, dbUp, issued,
                   revokedOk, observedDead, users>>
    /\ UNCHANGED draws

DeleteUser(user_id, fk_enforced) ==
    /\ Count
    /\ UNCHANGED unitVars
    /\ LET r == delete_user(user_id, fk_enforced)
       IN /\ users' = r.users
          /\ sessions' = r.rows
          /\ last' = Call("delete_user", NoToken, user_id, r.ok, NoVal)
    /\ UNCHANGED <<valCache, expCache, mirror, now, dbUp, issued, revokedOk,
                   observedDead, url>>
    /\ UNCHANGED draws

DeactivateUser(user_id) ==
    /\ Count
    /\ UNCHANGED unitVars
    /\ LET r == deactivate_user(user_id)
       IN /\ users' = r.users
          /\ sessions' = r.rows
          /\ last' = Call("deactivate_user", NoToken, user_id, r.ok, NoVal)
    /\ UNCHANGED <<valCache, expCache, mirror, now, dbUp, issued, revokedOk,
                   observedDead, url>>
    /\ UNCHANGED draws

AppNext ==
    \/ \E u \in UserIds, t \in GenChoices : PerformLogin(u, t)
    \/ \E u \in UserIds, t \in issued : SetUserSession(u, t)
    \/ \E t \in Presentable : RestoreFromToken(t)
    \/ EnsureActive
    \/ \E t \in Presentable : ClearAll(t)
    \/ \E t \in Presentable : Revoke(t)
    \/ PerformLogout
    \/ \E t \in Presentable : OpenUrl(t)
    \/ Reload
    \/ Run
    \/ \E u \in UserIds, fk \in BOOLEAN : DeleteUser(u, fk)
    \/ \E u \in UserIds : DeactivateUser(u)
    \/ \E t \in PresentableToValidate : Validate(t)
    \/ \E d \in TickSteps : Tick(d)
    \/ StoreFail
    \/ StoreRecover

AppSpec == Init /\ [][AppNext]_vars

(* ================ health check and context capture (UnitSpec) ========= *)
(* What st.context does when one of its attributes is read: it returns a   *)
(* value, returns None, or raises.  getattr(st.context, name, None) turns  *)
(* an AttributeError into None.                                            *)
ContextFields == {"ip_address", "url", "timezone", "timezone_offset",
                  "locale", "is_embedded", "headers", "cookies"}

FieldStates == {"value", "None", "AttributeError", "RuntimeError",
                "KeyError"}

FieldFaults == FieldStates \ {"value"}

(* available: whether st has the attribute context at all; fields: what    *)
(* each attribute does, at most MaxFaults of them not returning a value.   *)
ContextEnvs ==
    {[available |-> FALSE, fields |-> [k \in ContextFields |-> "AttributeError"]]}
    \cup
    {[available |-> TRUE,
      fields |-> [k \in ContextFields |->
                    IF k \in DOMAIN g THEN g[k] ELSE "value"]] :
        g \in UNION {[S -> FieldFaults] :
                       S \in {T \in SUBSET ContextFields :
                                 Cardinality(T) <= MaxFaults}}}

(* What st.session_state does during the probe. *)
SessionStateModes == {"ok", "write_raises", "unavailable"}

(* ------------------------- SessionHealthCheck ------------------------- *)
features_to_test == {"ip_address", "headers", "url", "timezone",
                     "timezone_offset", "locale", "cookies"}

check_streamlit_context_availability(env) ==
    IF ~env.available
    THEN [context_available |-> FALSE, fallback_used |-> TRUE]
    ELSE [context_available |-> TRUE,
          fallback_used |-> \E feature \in features_to_test :
                               env.fields[feature] # "value"]

test_key == "_health_check_test"

(* The probe: write test_key, read it back, pop it. *)
check_session_state_health(state, mode) ==
    CASE mode = "unavailable" ->
            [session_state_available |-> FALSE, test_passed |-> FALSE,
             state |-> state]
      [] mode = "write_raises" ->
            [session_state_available |-> TRUE, test_passed |-> FALSE,
             state |-> state]
      [] OTHER ->
            [session_state_available |-> TRUE, test_passed |-> TRUE,
             state |-> [k \in DOMAIN state \ {test_key} |-> state[k]]]

(* overall_health with the session-state test ignored when the context is  *)
(* available                                                               *)
overall_health_ContextFirst(context_ok, session_ok, fallback_used) ==
    IF ~context_ok /\ ~session_ok THEN "unhealthy"
    ELSE IF ~context_ok THEN "degraded"
    ELSE IF fallback_used THEN "healthy_with_fallbacks"
    ELSE "healthy"

(* The branches that determine overall_health. *)
overall_health(context_ok, session_ok, fallback_used) ==
    IF ~context_ok /\ ~session_ok THEN "unhealthy"
    ELSE IF ~context_ok /\ session_ok THEN "degraded"
    ELSE IF context_ok /\ session_ok
    THEN (IF fallback_used THEN "healthy_with_fallbacks" ELSE "healthy")
    ELSE "unhealthy"

run_full_health_check(state, env, mode) ==
    LET context_health == check_streamlit_context_availability(env)
        session_health == check_session_state_health(state, mode)
    IN [report |->
           [overall_health |->
                overall_health(context_health.context_available,
                               session_health.test_passed,
                               context_health.fallback_used),
            context_available |-> context_health.context_available,
            fallback_used |-> context_health.fallback_used,
            session_state_available |->
                session_health.session_state_available,
            test_passed |-> session_health.test_passed],
        state |-> session_health.state]

(* --------------------------- SessionContext --------------------------- *)
FALLBACK_KEYS == {"client_ip", "user_agent", "access_url", "timezone",
                  "timezone_offset", "locale", "is_embedded"}

(* How reading attribute attr_name of st.context ends: with a value, with  *)
(* None, with an exception the helpers catch, or with another exception.   *)
ReadOf(env, attr_name) ==
    IF ~env.available THEN "caught"
    ELSE CASE env.fields[attr_name] = "value" -> "value"
           [] env.fields[attr_name] \in {"None", "AttributeError"} -> "None"
           [] env.fields[attr_name] = "RuntimeError" -> "caught"
           [] OTHER -> "raised"

Fallback(fallback_key) ==
    IF fallback_key \in FALLBACK_KEYS THEN "fallback" ELSE "null"

safe_get_context_attr(env, attr_name, fallback_key) ==
    CASE ReadOf(env, attr_name) = "value" -> "context"
      [] ReadOf(env, attr_name) = "raised" -> "raised"
      [] OTHER -> Fallback(fallback_key)

(* The user agent safe_get_headers extracts. *)
safe_get_headers(env) ==
    CASE ReadOf(env, "headers") = "value" -> "context"
      [] ReadOf(env, "headers") = "raised" -> "raised"
      [] OTHER -> "fallback"

safe_get_cookies(env) ==
    CASE ReadOf(env, "cookies") = "value" -> "context"
      [] ReadOf(env, "cookies") = "raised" -> "raised"
      [] OTHER -> "empty"

from_streamlit_context(env) ==
    LET fields ==
           [user_agent |-> safe_get_headers(env),
            client_ip |-> safe_get_context_attr(env, "ip_address",
                                                "client_ip"),
            access_url |-> safe_get_context_attr(env, "url", "access_url"),
            timezone |-> safe_get_context_attr(env, "timezone", "timezone"),
            timezone_offset |->
                safe_get_context_attr(env, "timezone_offset",
                                      "timezone_offset"),
            locale |-> safe_get_context_attr(env, "locale", "locale"),
            is_embedded |-> safe_get_context_attr(env, "is_embedded",
                                                  "is_embedded"),
            cookies |-> safe_get_cookies(env)]
    IN IF \E k \in DOMAIN fields : fields[k] = "raised"
       THEN [raised |-> TRUE, fields |-> [k \in {} |-> "null"]]
       ELSE [raised |-> FALSE, fields |-> fields]

(* ------------------------------ actions ------------------------------- *)
storeVars == <<sessions, valCache, expCache, now, dbUp, issued, revokedOk,
               observedDead, users, url, draws>>

(* Objects handed to set_session: one with every attribute of the          *)
(* StreamlitSessionData protocol, and ones lacking some of them.           *)
SessionDataVariants ==
    {[k \in ks |-> StreamlitSessionData(u, t)[k]] :
        ks \in {{"user_id", "username", "display_name", "role",
                 "session_token"},
                {"user_id", "username", "role", "session_token"},
                {"user_id", "username", "display_name", "session_token"},
                {"username", "display_name", "role", "session_token"},
                {"user_id", "username", "display_name", "role"}},
        u \in UserIds,
        t \in {GenSeq[1]}}

(* Keys page code keeps in st.session_state next to the session keys. *)
PageKeys == {test_key, "show_logout_confirm"}

WriteKey(k) ==
    /\ Count
    /\ steps < MaxUnitSteps
    /\ k \notin DOMAIN mirror
    /\ mirror' = [x \in DOMAIN mirror \cup {k} |->
                     IF x = k THEN "page_value" ELSE mirror[x]]
    /\ last' = Call("write_key", NoToken, NoId, TRUE, NoVal)
    /\ UNCHANGED <<storeVars, unitVars>>

SetSession(data) ==
    /\ Count
    /\ steps < MaxUnitSteps
    /\ LET r == set_session(mirror, data)
       IN /\ mirror' = r.state
          /\ last' = Call("set_session",
                          IF "session_token" \in DOMAIN data
                          THEN data.session_token ELSE NoToken,
                          IF "user_id" \in DOMAIN data
                          THEN data.user_id ELSE NoId,
                          r.ok, NoVal)
    /\ UNCHANGED <<storeVars, unitVars>>

RunFullHealthCheck(env, mode) ==
    /\ Count
    /\ steps < MaxUnitSteps
    /\ LET r == run_full_health_check(mirror, env, mode)
       IN /\ mirror' = r.state
          /\ health' = r.report
          /\ last' = Call("health_check", NoToken, NoId,
                          r.report.test_passed, NoVal)
    /\ UNCHANGED <<storeVars, captured, connVars>>

CaptureContext(env) ==
    /\ Count
    /\ steps < MaxUnitSteps
    /\ captured' = from_streamlit_context(env)
    /\ last' = Call("capture_context", NoToken, NoId,
                    ~from_streamlit_context(env).raised, NoVal)
    /\ UNCHANGED <<storeVars, mirror, health, connVars>>

UnitNext ==
    \/ \E k \in PageKeys : WriteKey(k)
    \/ \E data \in SessionDataVariants : SetSession(data)
    \/ \E env \in ContextEnvs, mode \in SessionStateModes :
          RunFullHealthCheck(env, mode)
    \/ \E env \in ContextEnvs : CaptureContext(env)

UnitSpec == Init /\ [][UnitNext]_vars

(* ============ file-persisted sessions of main.py (ConnSpec) =========== *)
(* SessionPersistence.DURATION, in hours. *)
SESSION_FILE_HOURS == 1

(* _is_session_valid: the file is expired when now > expires_at. *)
is_session_valid(file) == ~(now > file.expires_at)

(* str(uuid.uuid4())[:8]: an id no file and no connection has. *)
NewSessionId == steps + 1

FileOf(fs, session_id) == {f \in fs : f.session_id = session_id}

(* get_or_create_session_id: the id of the first valid file that the glob  *)
(* over SESSIONS_DIR yields, whichever connection wrote it; expired files  *)
(* met on the way (deleted) are unlinked; a new id when no file is valid.  *)
(* pick is the valid file the glob yields first, deleted the expired files *)
(* it yields before it.                                                    *)
get_or_create_session_id(pick, deleted) ==
    LET valid == {f \in files : is_session_valid(f)}
    IN IF valid # {}
       THEN [session_id |-> pick.session_id, files |-> files \ deleted]
       ELSE [session_id |-> NewSessionId, files |-> {}]

(* restore_session: the file named after the session id, when it has not   *)
(* expired, is copied into the session state.                              *)
restore_session(state, fs) ==
    LET own == FileOf(fs, state.session_id)
    IN IF own = {}
       THEN [ok |-> FALSE, state |-> state, files |-> fs]
       ELSE LET data == CHOOSE f \in own : TRUE
            IN IF now > data.expires_at
               THEN [ok |-> FALSE, state |-> state, files |-> fs \ own]
               ELSE [ok |-> TRUE,
                     state |-> [state EXCEPT
                                  !.logged_in = data.logged_in,
                                  !.user_id = data.user_id,
                                  !.username = data.username,
                                  !.user_role = data.user_role],
                     files |-> fs]

(* SessionManager.initialize, called by main() on every run. *)
initialize(state, pick, deleted) ==
    LET got == IF state.session_id = NoSessionId
               THEN get_or_create_session_id(pick, deleted)
               ELSE [session_id |-> state.session_id, files |-> files]
        withId == [state EXCEPT !.session_id = got.session_id]
    IN IF ~withId.logged_in
       THEN restore_session(withId, got.files)
       ELSE [ok |-> FALSE, state |-> withId, files |-> got.files]

(* SessionManager.set_user_session: the session state, then the file. *)
set_user_session(state, user_id) ==
    LET logged == [state EXCEPT
                     !.logged_in = TRUE,
                     !.user_id = user_id,
                     !.username = USER_TABLE[user_id].username,
                     !.user_role =
                        ROLE_TABLE[USER_TABLE[user_id].role_id].name]
        file == [session_id |-> state.session_id,
                 logged_in |-> TRUE,
                 user_id |-> logged.user_id,
                 username |-> logged.username,
                 user_role |-> logged.user_role,
                 expires_at |-> now + SecondsOf(SESSION_FILE_HOURS)]
    IN [state |-> logged,
        files |-> IF state.session_id = NoSessionId
                  THEN files
                  ELSE (files \ FileOf(files, state.session_id))
                       \cup {file}]

(* SessionManager.clear_session: the file is deleted, the state reset. *)
clear_user_session_file(state) ==
    [state |-> [EmptyConn EXCEPT !.session_id = state.session_id],
     files |-> files \ FileOf(files, state.session_id)]

(* ------------------------------ actions ------------------------------- *)
connFrame == <<storeVars, mirror, health, captured>>

(* main() runs on connection c. *)
Initialize(c, pick, deleted) ==
    /\ Count
    /\ LET valid == {f \in files : is_session_valid(f)}
       IN IF conn[c].session_id = NoSessionId /\ valid # {}
          THEN pick \in valid /\ deleted \subseteq files \ valid
          ELSE pick = NoFile /\ deleted = {}
    /\ LET r == initialize(conn[c], pick, deleted)
       IN /\ conn' = [conn EXCEPT ![c] = r.state]
          /\ files' = r.files
          /\ last' = Call("initialize", NoToken, r.state.user_id,
                          r.state.logged_in, NoVal)
    /\ UNCHANGED <<connFrame, authed>>

(* The login form on connection c authenticates user_id. *)
Login(c, user_id) ==
    /\ Count
    /\ ~conn[c].logged_in
    /\ LET r == set_user_session(conn[c], user_id)
       IN /\ conn' = [conn EXCEPT ![c] = r.state]
          /\ files' = r.files
    /\ authed' = [authed EXCEPT ![c] = user_id]
    /\ last' = Call("file_login", NoToken, user_id, TRUE, NoVal)
    /\ UNCHANGED connFrame

Logout(c) ==
    /\ Count
    /\ conn[c].logged_in
    /\ LET r == clear_user_session_file(conn[c])
       IN /\ conn' = [conn EXCEPT ![c] = r.state]
          /\ files' = r.files
    /\ authed' = [authed EXCEPT ![c] = NoId]
    /\ last' = Call("file_logout", NoToken, conn[c].user_id, TRUE, NoVal)
    /\ UNCHANGED connFrame

(* The browser of connection c opens a new websocket: Streamlit gives it   *)
(* an empty session state.                                                 *)
Reconnect(c) ==
    /\ Count
    /\ conn[c] # EmptyConn
    /\ conn' = [conn EXCEPT ![c] = EmptyConn]
    /\ authed' = [authed EXCEPT ![c] = NoId]
    /\ last' = Call("reconnect", NoToken, NoId, TRUE, NoVal)
    /\ UNCHANGED <<connFrame, files>>

ConnNext ==
    \/ \E c \in Connections, pick \in files \cup {NoFile},
          deleted \in SUBSET files : Initialize(c, pick, deleted)
    \/ \E c \in Connections, u \in UserIds : Login(c, u)
    \/ \E c \in Connections : Logout(c)
    \/ \E c \in Connections : Reconnect(c)
    \/ \E d \in TickSteps : Tick(d)

ConnSpec == Init /\ [][ConnNext]_vars

(* ------------------------------ helpers ------------------------------- *)
RowOf(rows, t) == rows[CHOOSE i \in RowsOf(rows, t) : TRUE]

TypeOK ==
    /\ Len(sessions) <= MaxSessions
    /\ now >= 0
    /\ steps \in 0..MaxSteps
    /\ dbUp \in BOOLEAN

(* ------------------------------ claims -------------------------------- *)
RowValid(r, time) == r.is_active /\ ~(time > r.expires_at)

(* C1: validating the token returned by a successful create_user_session   *)
(* immediately afterwards returns a valid result carrying the user id the  *)
(* session was created for.                                                *)
C1_CreateThenValidate ==
    [][(/\ last.op = "create" /\ last.ok
        /\ last'.op = "validate" /\ last'.token = last.token)
       => (last'.val.is_valid /\ last'.val.user_id = last.user)]_vars

C1_Witness ==
    /\ steps = 2
    /\ last.op = "validate" /\ last.val.is_valid
    /\ Len(sessions) = 1
    /\ last.token = sessions[1].session_token
    /\ last.val.user_id = sessions[1].user_id

(* C2: once clear_session(t) has returned True, no later Validate(t)       *)
(* reports the session valid.                                              *)
C2_RevokedStaysInvalid ==
    (last.op = "validate" /\ last.token \in revokedOk) => ~last.val.is_valid

C4_ValidIffActiveAndBefore ==
    (last.op = "validate" /\ dbUp /\ RowsOf(sessions, last.token) # {})
    => (last.val.is_valid <=>
          (/\ RowOf(sessions, last.token).is_active
           /\ now < RowOf(sessions, last.token).expires_at))

(* C5: with the store reachable, Validate of a token of accepted length    *)
(* yields not-found when there is no row, inactive for an inactive row,    *)
(* Expired for an active row whose expires_at is past, and Valid for an    *)
(* active row whose expires_at is still to come.                           *)
C5_TaggedOutcome ==
    (last.op = "validate" /\ dbUp /\ Len(last.token) >= MIN_TOKEN_LEN)
    => IF RowsOf(sessions, last.token) = {}
       THEN last.val = invalid_session("Session tidak ditemukan")
       ELSE LET r == RowOf(sessions, last.token)
            IN /\ ~r.is_active
                    => last.val = invalid_session("Session tidak aktif")
               /\ (r.is_active /\ r.expires_at < now)
                    => last.val = expired_session
               /\ (r.is_active /\ r.expires_at > now)
                    => (last.val.is_valid /\ last.val.user_id = r.user_id)

C7_RefreshExpiredNoWrite ==
    [][(/\ last'.op = "refresh"
        /\ RowsOf(sessions, last'.token) # {}
        /\ now > RowOf(sessions, last'.token).expires_at)
       => (~last'.ok /\ sessions' = sessions)]_vars

(* C8: an inactive row never becomes active again, and a token Validate    *)
(* has reported inactive or expired is never reported valid afterwards.    *)
C8_NoReactivation ==
    [][/\ \A i \in 1..Len(sessions) :
             ~sessions[i].is_active
             => (i <= Len(sessions') /\ ~sessions'[i].is_active)
       /\ (last'.op = "validate" /\ last'.token \in observedDead)
             => ~last'.val.is_valid]_vars

C8_Witness ==
    /\ last.op = "validate" /\ last.nth = 2
    /\ last.token \in observedDead
    /\ RowsOf(sessions, last.token) # {}
    /\ ~last.val.is_valid
    /\ IsDeadOutcome(last.val)

(* C9: after force_logout_user(u) has returned True every session of u     *)
(* validates as not valid, and the rows of other users are unchanged.      *)
C9_ForceLogout ==
    [][/\ (/\ last.op = "force_logout" /\ last.ok
           /\ last'.op = "validate"
           /\ \E i \in RowsOf(sessions, last'.token) :
                 sessions[i].user_id = last.user)
          => ~last'.val.is_valid
       /\ last'.op = "force_logout"
          => \A i \in 1..Len(sessions) :
                sessions[i].user_id # last'.user
                => sessions'[i] = sessions[i]]_vars

(* C10: each successful login adds one row of its own and leaves the       *)
(* others as they were; revoking one session by token leaves every other   *)
(* row unchanged, and what Validate answers for it unchanged.              *)
C10_IndependentSessions ==
    [][/\ (last'.op = "create" /\ last'.ok)
          => /\ Len(sessions') = Len(sessions) + 1
             /\ \A i \in 1..Len(sessions) : sessions'[i] = sessions[i]
             /\ sessions'[Len(sessions')].session_token = last'.token
             /\ sessions'[Len(sessions')].user_id = last'.user
             /\ RowValid(sessions'[Len(sessions')], now)
       /\ last'.op = "revoke"
          => /\ Len(sessions') = Len(sessions)
             /\ \A i \in 1..Len(sessions) :
                   sessions[i].session_token # last'.token
                   => /\ sessions'[i] = sessions[i]
                      /\ RowValid(sessions'[i], now') = RowValid(sessions[i], now)
                      /\ validate_session(sessions[i].session_token).val'
                            = validate_session(sessions[i].session_token).val
      ]_vars

C10_Witness ==
    /\ last.op = "revoke" /\ dbUp
    /\ \E i, j \in 1..Len(sessions) :
          /\ i # j
          /\ sessions[i].user_id = sessions[j].user_id
          /\ sessions[i].session_token = last.token
          /\ ~sessions[i].is_active
          /\ RowValid(sessions[j], now)

(* C11: after delete_user or deactivate_user has succeeded for a user,     *)
(* every session row of that user is inactive, and a Validate that follows *)
(* on a token of that user is not valid.                                   *)
C11_AccountRemovalRevokes ==
    [][/\ (last'.op \in {"delete_user", "deactivate_user"} /\ last'.ok)
          => \A i \in 1..Len(sessions') :
                sessions'[i].user_id = last'.user => ~sessions'[i].is_active
       /\ (/\ last.op \in {"delete_user", "deactivate_user"} /\ last.ok
           /\ last'.op = "validate"
           /\ \E i \in RowsOf(sessions, last'.token) :
                 sessions[i].user_id = last.user)
          => ~last'.val.is_valid]_vars

(* The token has a row that the join finds, active and not past its        *)
(* expiry, with the store reachable.                                       *)
IdentifiesValid(t) ==
    /\ dbUp
    /\ RowsOf(sessions, t) # {}
    /\ RowOf(sessions, t).user_id \in users
    /\ RowValid(RowOf(sessions, t), now)

(* The mirror holds the user id, username and role of the owner of row r   *)
(* together with its token.                                                *)
MirrorHolds(state, r) ==
    /\ {"user_id", "username", "user_role", "session_token"}
          \subseteq DOMAIN state
    /\ state.user_id = r.user_id
    /\ state.username = USER_TABLE[r.user_id].username
    /\ state.user_role = ROLE_TABLE[USER_TABLE[r.user_id].role_id].name
    /\ state.session_token = r.session_token

MirrorCleared(state) == DOMAIN state \cap SESSION_KEYS = {}

(* C12: restore_session_from_token on a token that identifies a valid      *)
(* session returns True and leaves the mirror holding that session's user  *)
(* id, username, role and token.                                           *)
C12_RestoreValid ==
    [][(last'.op = "restore" /\ IdentifiesValid(last'.token))
       => (/\ last'.ok
           /\ MirrorHolds(mirror', RowOf(sessions, last'.token)))]_vars

(* C13: restore_session_from_token on a token that does not identify a     *)
(* valid session returns False and leaves the mirror as it was.            *)
C13_RestoreInvalidFrame ==
    [][(last'.op = "restore" /\ ~IdentifiesValid(last'.token))
       => (~last'.ok /\ mirror' = mirror)]_vars

C13_Witness ==
    /\ last.op = "restore" /\ ~last.ok
    /\ last.token \in issued
    /\ RowsOf(sessions, last.token) # {}
    /\ ~RowValid(RowOf(sessions, last.token), now)
    /\ ~IdentifiesValid(last.token)
    /\ MirrorToken(mirror) # NoToken

(* C14: for a session created at this instant, restore_session_from_token  *)
(* followed at once by ensure_session_active leaves the mirror with the    *)
(* username and role of the session's user, and ensure_session_active      *)
(* returns True.                                                           *)
C14_RestoreRoundTrip ==
    [][(/\ last.op = "restore"
        /\ IdentifiesValid(last.token)
        /\ RowOf(sessions, last.token).created_at = now
        /\ last'.op = "ensure")
       => (/\ last'.ok
           /\ MirrorHolds(mirror', RowOf(sessions, last.token)))]_vars

(* C15: ensure_session_active on a mirror that holds a token: when         *)
(* validate_session does not answer valid, the call returns False, the     *)
(* mirror is cleared and every row with that token is inactive; when it    *)
(* answers valid, the row's last_activity is set to now.                   *)
C15_EnsureActive ==
    [][(last'.op = "ensure" /\ last'.token # NoToken)
       => IF ~validate_session(last'.token).val.is_valid
          THEN /\ ~last'.ok
               /\ MirrorCleared(mirror')
               /\ \A i \in RowsOf(sessions', last'.token) :
                     ~sessions'[i].is_active
          ELSE \A i \in RowsOf(sessions', last'.token) :
                  sessions'[i].last_activity = now]_vars

(* C16: clear_session_state and clear_session return True and leave none   *)
(* of the session keys in the mirror; with a token and a reachable store,  *)
(* every row with that token is inactive afterwards.                       *)
C16_ClearAll ==
    [][last'.op \in {"clear_all", "revoke"}
       => (/\ last'.ok
           /\ MirrorCleared(mirror')
           /\ (last'.token # NoToken /\ dbUp)
                 => \A i \in RowsOf(sessions', last'.token) :
                       ~sessions'[i].is_active)]_vars

(* C17: perform_logout with a token in the mirror clears the mirror and    *)
(* leaves every row with that token inactive, and a Validate of the token  *)
(* that follows is not valid.                                              *)
C17_LogoutBothSides ==
    [][/\ (last'.op = "logout" /\ last'.token # NoToken)
          => (/\ MirrorCleared(mirror')
              /\ \A i \in RowsOf(sessions', last'.token) :
                    ~sessions'[i].is_active)
       /\ (/\ last.op = "logout" /\ last.token # NoToken
           /\ last'.op = "validate" /\ last'.token = last.token)
          => ~last'.val.is_valid]_vars

(* C18: a run of the page script that attempts a restoration from the      *)
(* token in the query parameter leaves the parameter absent, so the next   *)
(* run finds no token there.                                               *)
C18_UrlTokenCleared ==
    [][/\ (/\ last'.op = "run" /\ url # NoToken
           /\ ~setup_defaults(mirror).logged_in)
          => url' = NoToken
       /\ (last.op = "run" /\ last.token # NoToken /\ last'.op = "run")
          => last'.token = NoToken]_vars

C18_Witness ==
    /\ last.op = "run" /\ last.token \in issued
    /\ IdentifiesValid(last.token)
    /\ url = NoToken

(* C19: a successful perform_login leaves the session token in the query   *)
(* parameter, and a run of the page script on a new session state with a   *)
(* valid token in the parameter ends with the mirror authenticated for     *)
(* that session.                                                           *)
C19_LoginSurvivesReload ==
    [][/\ (last'.op = "login" /\ last'.ok) => url' = last'.token
       /\ (/\ last'.op = "run" /\ mirror = EmptyState
           /\ url # NoToken /\ IdentifiesValid(url))
          => (/\ last'.ok
              /\ MirrorHolds(mirror', RowOf(sessions, url)))]_vars

(* C20: when the insert fails, create_user_session returns a result with   *)
(* success False and no token, and the user_session table is as it was.    *)
C20_CreateFailure ==
    [][/\ (last'.op = "create" /\ ~dbUp) => ~last'.ok
       /\ (last'.op = "create" /\ ~last'.ok)
          => (/\ last'.token = NoToken
              /\ sessions' = sessions
              /\ issued' = issued)]_vars

C20_Witness ==
    /\ last.op = "create" /\ ~last.ok /\ last.token = NoToken
    /\ ~dbUp
    /\ Len(sessions) = 1

(* C21: no two rows of user_session ever share a token; a creation whose   *)
(* token is already in the table fails with the store reachable and leaves *)
(* the table as it was.                                                    *)
C21_TokenUnique ==
    [][/\ \A i, j \in 1..Len(sessions') :
             i # j => sessions'[i].session_token # sessions'[j].session_token
       /\ (last'.op = "create" /\ dbUp /\ ~last'.ok)
             => sessions' = sessions]_vars

C21_Witness ==
    /\ last.op = "create" /\ ~last.ok /\ dbUp
    /\ Len(sessions) = 2
    /\ sessions[1].session_token # sessions[2].session_token

(* C22: a creation that fails on a duplicate token with the store          *)
(* reachable has drawn a second token and tried again before it reports    *)
(* the failure.                                                            *)
C22_RetryOnce ==
    [][(last'.op \in {"create", "login"} /\ dbUp /\ ~last'.ok)
       => draws' = 2]_vars

(* C23: validate_session without a token returns the invalid result with   *)
(* the message "Token tidak ada" whatever the state of the store, and      *)
(* leaves the table and both lookup caches as they were.                   *)
C23_NoTokenShortCircuit ==
    [][(last'.op = "validate" /\ last'.token = NoToken)
       => (/\ last'.val = invalid_session("Token tidak ada")
           /\ UNCHANGED <<sessions, valCache, expCache>>)]_vars

C23_Witness ==
    /\ last.op = "validate" /\ last.token = NoToken
    /\ last.val.message = "Token tidak ada"
    /\ ~dbUp
    /\ sessions # <<>>

(* C24: clear_session without a token, or with a token that has no row,    *)
(* returns True and leaves every row of user_session as it was.            *)
C24_RevokeMissing ==
    [][(/\ last'.op = "revoke"
        /\ (last'.token = NoToken \/ RowsOf(sessions, last'.token) = {}))
       => (last'.ok /\ sessions' = sessions)]_vars

C24_Witness ==
    /\ last.op = "revoke" /\ last.ok /\ dbUp
    /\ last.token \in ForeignTokens
    /\ \E i \in 1..Len(sessions) : sessions[i].is_active

(* C25: while the store is unreachable, validate_session does not answer   *)
(* valid, is_session_expired answers True, and refresh_session answers     *)
(* False and writes nothing.                                               *)
C25_FailClosed ==
    [][(~dbUp)
       => (/\ last'.op = "validate" => ~last'.val.is_valid
           /\ last'.op = "is_expired" => last'.ok
           /\ last'.op = "refresh"
                 => (~last'.ok /\ sessions' = sessions))]_vars

(* C26: the last_activity of a row never decreases, whatever sequence of   *)
(* creations, refreshes and revocations is applied.                        *)
C26_LastActivityMonotone ==
    [][\A i \in 1..Len(sessions) :
          /\ i <= Len(sessions')
          /\ sessions'[i].last_activity >= sessions[i].last_activity]_vars

C26_Witness ==
    /\ last.op = "refresh" /\ last.ok
    /\ RowsOf(sessions, last.token) # {}
    /\ RowOf(sessions, last.token).last_activity
          > RowOf(sessions, last.token).created_at
    /\ \E i \in 1..Len(sessions) :
          ~sessions[i].is_active /\ sessions[i].last_activity > 0

(* C27: the overall health status is a function of (context available,     *)
(* session-state test passed, fallback used): unhealthy exactly when the    *)
(* session-state test failed, degraded exactly when it passed and the       *)
(* context is unavailable, healthy_with_fallbacks when both are ok and a    *)
(* fallback was used, healthy when both are ok and none was used.           *)
C27_OverallHealth ==
    health # NoReport =>
        /\ health.overall_health \in {"unhealthy", "degraded",
                                      "healthy_with_fallbacks", "healthy"}
        /\ (health.overall_health = "unhealthy") <=> ~health.test_passed
        /\ (health.overall_health = "degraded") <=>
              (health.test_passed /\ ~health.context_available)
        /\ (health.overall_health = "healthy_with_fallbacks") <=>
              (health.test_passed /\ health.context_available
               /\ health.fallback_used)
        /\ (health.overall_health = "healthy") <=>
              (health.test_passed /\ health.context_available
               /\ ~health.fallback_used)

C27_Witness ==
    /\ last.op = "health_check"
    /\ health.overall_health = "unhealthy"
    /\ health.context_available
    /\ ~health.fallback_used

(* C28: the health check never mutates state: whatever the session state   *)
(* holds, also a key named like the probe key, the session state after      *)
(* run_full_health_check equals the one before it, and no store row is      *)
(* changed.                                                                 *)
C28_HealthCheckPure ==
    [][last'.op = "health_check" =>
          (mirror' = mirror /\ sessions' = sessions)]_vars

(* C29: context capture never fails: whichever context attributes are       *)
(* unavailable, None or raising, from_streamlit_context returns a context   *)
(* whose client_ip, user_agent, access_url, timezone, timezone_offset and   *)
(* locale are all non-null.                                                 *)
C29_CaptureNeverFails ==
    last.op = "capture_context" =>
        /\ ~captured.raised
        /\ \A k \in {"client_ip", "user_agent", "access_url", "timezone",
                     "timezone_offset", "locale"} :
              captured.fields[k] \in {"context", "fallback"}

C31_UpdateActivityFrame ==
    [][last'.op = "update_activity" =>
          LET hit == {i \in RowsOf(sessions, last'.token) :
                         sessions[i].is_active}
          IN IF hit = {} \/ ~dbUp
             THEN ~last'.ok /\ sessions' = sessions
             ELSE /\ last'.ok
                  /\ Len(sessions') = Len(sessions)
                  /\ \A i \in 1..Len(sessions) :
                        sessions'[i] =
                           IF i \in hit
                           THEN [sessions[i] EXCEPT !.last_activity = now]
                           ELSE sessions[i]]_vars

C31_Witness ==
    /\ last.op = "update_activity"
    /\ ~last.ok
    /\ dbUp
    /\ \E i \in RowsOf(sessions, last.token) :
          /\ ~sessions[i].is_active
          /\ sessions[i].last_activity < now
    /\ \E j \in 1..Len(sessions) : sessions[j].is_active

(* C32: a session row is read-only after it has been deactivated: once      *)
(* is_active is false, no Validate, Refresh or Revoke on its token changes  *)
(* any field of the row, last_activity included.                            *)
C32_ReadOnlyAfterDeactivation ==
    [][last'.op \in {"validate", "refresh", "revoke"} =>
          \A i \in RowsOf(sessions, last'.token) :
              ~sessions[i].is_active =>
                  (i <= Len(sessions') /\ sessions'[i] = sessions[i])]_vars

(* C33: expires_at is fixed at creation: no Refresh, Validate or Revoke     *)
(* changes a row's expires_at, and a session is not answered as valid once  *)
(* its expires_at has passed, however often it was refreshed before.        *)
C33_ExpiryFixed ==
    [][/\ last'.op \in {"refresh", "validate", "revoke"} =>
             \A i \in 1..Len(sessions) :
                 /\ i <= Len(sessions')
                 /\ sessions'[i].expires_at = sessions[i].expires_at
       /\ (last'.op = "validate" /\ last'.val.is_valid) =>
             \E i \in RowsOf(sessions, last'.token) :
                 ~(now > sessions[i].expires_at)]_vars

(* C34: a token shorter than the minimum accepted length is answered as     *)
(* invalid without a store read (the answer is the same whether or not the  *)
(* store can be reached), and every token that session creation produced    *)
(* has at least that length, so no issued token is rejected for its length. *)
C34_ShortTokenShortCircuit ==
    [][/\ (last'.op = "validate" /\ Len(last'.token) < MIN_TOKEN_LEN) =>
             /\ ~last'.val.is_valid
             /\ ~last'.val.is_expired
             /\ last'.val.message \in {"Token tidak valid", "Token tidak ada"}
             /\ sessions' = sessions
       /\ \A t \in issued' : Len(t) >= MIN_TOKEN_LEN
       /\ \A i \in 1..Len(sessions') :
             Len(sessions'[i].session_token) >= MIN_TOKEN_LEN
       /\ (last'.op = "validate" /\ last'.token \in issued) =>
             last'.val.message # "Token tidak valid"]_vars

C34_Witness ==
    /\ last.op = "validate"
    /\ last.token \in ShortTokens
    /\ last.val.message = "Token tidak valid"
    /\ ~dbUp
    /\ issued # {}

(* C35: for client metadata of any length the stored ip_address has at most *)
(* IP_MAX_LENGTH characters and the user_agent at most                      *)
(* USER_AGENT_MAX_LENGTH (None stays None), and creation does not fail      *)
(* because the metadata was too long: with the store reachable and no row   *)
(* to collide with, creation succeeds.                                      *)
C35_MetadataTruncated ==
    [][/\ \A i \in 1..Len(sessions') :
             /\ Len(sessions'[i].ip_address) <= IP_MAX_LENGTH
             /\ Len(sessions'[i].user_agent) <= USER_AGENT_MAX_LENGTH
       /\ (last'.op = "create" /\ dbUp /\ sessions = <<>>) => last'.ok]_vars

(* C36: every failure message that login and session creation return is    *)
(* one of a fixed set of generic messages, the same whatever the internal   *)
(* cause of the failure was.                                                *)
C36_GenericMessages ==
    (last.op \in {"login", "create"} /\ ~last.ok) =>
        last.val.message \in FixedFailureMessages

(* C37: the session states of different connections are isolated: a        *)
(* connection is logged in only as the user who logged in on that           *)
(* connection; a new connection that presented no credential is never       *)
(* logged in as a user who logged in on another connection.                 *)
C37_MirrorIsolation ==
    \A c \in Connections :
        conn[c].logged_in =>
            (authed[c] # NoId /\ conn[c].user_id = authed[c])

(* C38: mirror/store agreement: whenever the mirror is authenticated it     *)
(* holds a non-null session_token, the store has a row with that token and  *)
(* the row's user_id equals the mirror's user_id; whenever                  *)
(* create_user_session returns success the mirror is authenticated with the *)
(* returned token.                                                          *)
C38_MirrorStoreAgreement ==
    [][/\ ("authenticated" \in DOMAIN mirror' /\ mirror'.authenticated) =>
             /\ MirrorToken(mirror') # NoToken
             /\ \E i \in RowsOf(sessions', MirrorToken(mirror')) :
                   sessions'[i].user_id = mirror'.user_id
       /\ (last'.op \in {"create", "login"} /\ last'.ok) =>
             /\ "authenticated" \in DOMAIN mirror'
             /\ mirror'.authenticated
             /\ MirrorToken(mirror') = last'.token]_vars

(* C39: whenever ensure_session_active returns false the mirror is no       *)
(* longer authenticated, also when the validation passed and the refresh    *)
(* returned false.                                                          *)
C39_EnsureFalseClears ==
    [][(last'.op = "ensure" /\ ~last'.ok) =>
          ~("authenticated" \in DOMAIN mirror' /\ mirror'.authenticated)]_vars

(* C40: Validate and the expiry check agree at every instant, cached        *)
(* answers included: when is_session_expired answers false for an existing  *)
(* active row, validate_session answers valid; when validate_session        *)
(* answers expired, is_session_expired answers true; and Refresh never      *)
(* returns true for a session that Validate reports as non-valid.           *)
C40_ValidateExpiryAgree ==
    [][/\ \A t \in issued :
             LET expired == is_session_expired(t).val
                 validation == validate_session(t).val
             IN /\ (/\ ~expired
                    /\ \E i \in RowsOf(sessions, t) : sessions[i].is_active)
                      => validation.is_valid
                /\ validation.is_expired => expired
       /\ (last'.op = "refresh" /\ last'.ok) =>
             validate_session(last'.token).val.is_valid]_vars

====
